---------------------------- MODULE Spec2Model ----------------------------
(***************************************************************************)
(* WannabeLifePlan: the retirement projection engine (WannabeEngine) and   *)
(* the part of the Streamlit script that owns the property list and calls  *)
(* the engine.                                                             *)
(*                                                                         *)
(* Money.  The engine computes in Python floats on amounts in won.  Here   *)
(* an amount is an integer count of 1/FP of 10,000 won, and a rate is a    *)
(* count of halves (return_rate = 1 is 0.5), so every product, power and   *)
(* the 0.25 tax are exact integers.  For these inputs the float results    *)
(* are exact as well (dyadic rationals far below 2^53), so the model       *)
(* computes what the code computes.  Div fails loudly if a division would  *)
(* not be exact.                                                           *)
(*                                                                         *)
(* Objects.  A Python dict is an object; two lists can hold the same       *)
(* dict.  The dicts held by st.session_state.properties live in the        *)
(* variable properties, the dicts made by p.copy() live in copies, and     *)
(* the local list props holds references into one of the two.              *)
(***************************************************************************)
EXTENDS Integers, Sequences, FiniteSets, TLC

\* ------------------------------------------------------------------ bounds
MaxPeriod == 4      \* longest simulated horizon, in years
MaxProps  == 2      \* most properties the session store holds
MaxGap    == 12     \* widest distance between end age and shortfall age

\* --------------------------------------------------------- program constants
EOK_WON      == 10000   \* 100000000 won, counted in units of 10,000 won
MAN_WON      == 1       \* 10000 won, counted in units of 10,000 won
MONTHS       == 12
RATE_DEN     == 2       \* a rate r stands for r / RATE_DEN
TAX_RATE_DEN == 4       \* the tax rate 0.25 is 1 / TAX_RATE_DEN
BaseAge      == 50      \* default of the current-age input
DEATH_AGE_MIN == 80     \* lower bound of the life-expectancy input
DEATH_AGE_MAX == 120    \* upper bound of the life-expectancy input
CURR_AGE_MIN  == 30     \* lower bound of the current-age input
CURR_AGE_MAX  == 80     \* upper bound of the current-age input
RETIRE_AGE_MIN == 50    \* lower bound of the retirement-age input
RETIRE_AGE_MAX == 90    \* upper bound of the retirement-age input
SELL_AGE_MAX  == 100    \* upper bound of the sale-age slider
SELL_AGE_DEFAULT == 75  \* default of the sale-age slider

RECURSIVE Pow(_, _)
Pow(b, e) == IF e <= 0 THEN 1 ELSE b * Pow(b, e - 1)

FP == Pow(RATE_DEN, MaxPeriod + 1) * TAX_RATE_DEN

\* exact division: undefined (TLC stops) when d does not divide x
Div(x, d) == CHOOSE q \in {x \div d} : q * d = x

Max(a, b) == IF a >= b THEN a ELSE b
Min(a, b) == IF a <= b THEN a ELSE b

\* Python's None and a present value
None    == << >>
Some(x) == << x >>
Val(o)  == o[1]

\* slip: x * rate, the 1 + is missing
TimesRate(x, rate) == Div(x * rate, RATE_DEN)

\* x * (1 + rate)
TimesOnePlus(x, rate) == Div(x * (RATE_DEN + rate), RATE_DEN)
\* x * ((1 + rate) ** n)
TimesOnePlusPow(x, rate, n) ==
    Div(x * Pow(RATE_DEN + rate, n), Pow(RATE_DEN, n))

\* x / 100000000: the amount in units of 100,000,000 won, as a fraction
InEok(x) == [num |-> x, den |-> EOK_WON * FP]
IsNegative(q) == q.num < 0

VARIABLES
    properties,          \* st.session_state.properties: the caller's dicts
    self,                \* the engine object
    args,                \* the arguments of the current run_simulation call
    pc,                  \* where the script is
    props,               \* run_simulation's local list (references)
    copies,              \* the dicts created by p.copy()
    current_liquid,
    shortfall_age,
    ages,
    liquid_history,
    real_estate_history,
    trace,               \* per executed year: the loop body's local values
    score,               \* result of calculate_score, or None
    first,               \* result of the previous identical call, or None
    save,                \* the call of save_data_to_gsheet, or None
    widgets              \* the sidebar widgets of a rendered page, or None

vars == << properties, self, args, pc, props, copies, current_liquid,
           shortfall_age, ages, liquid_history, real_estate_history,
           trace, score, first, save, widgets >>

\* ------------------------------------------------------------------ inputs
Sell    == "Sell"
Inherit == "Inherit"

CurrentAges == {BaseAge, BaseAge + 1}
RetireAges  == {BaseAge, BaseAge + 2}
DeathAges   == (BaseAge - 2) .. (BaseAge + MaxPeriod - 1)
Rates       == {0, 1}

\* the profiles the script is run with: every horizon from BaseAge, and the
\* longest one from the year after (stored sale ages then lie in the past)
Profiles ==
    { pr \in CurrentAges \X RetireAges \X DeathAges :
         pr[1] = BaseAge \/ pr[3] = BaseAge + MaxPeriod - 1 }

\* the records the property form can append (is_sold is always False)
PropertyInputs ==
    { [current_val |-> 2, loan |-> 0, purchase_price |-> 1,
       strategy |-> Sell, sell_age |-> BaseAge + 1, is_sold |-> FALSE],
      [current_val |-> 2, loan |-> 0, purchase_price |-> 4,
       strategy |-> Sell, sell_age |-> BaseAge, is_sold |-> FALSE],
      [current_val |-> 1, loan |-> 3, purchase_price |-> 1,
       strategy |-> Sell, sell_age |-> BaseAge + 1, is_sold |-> FALSE],
      [current_val |-> 2, loan |-> 0, purchase_price |-> 1,
       strategy |-> Sell, sell_age |-> BaseAge + MaxPeriod + 10,
       is_sold |-> FALSE],
      [current_val |-> 2, loan |-> 3, purchase_price |-> 1,
       strategy |-> Inherit, sell_age |-> BaseAge + 1, is_sold |-> FALSE] }

\* monthly saving, monthly living cost and the yearly golf and travel cost
\* (line 353), all in units of 10,000 won
CashInputs == { << 0, 0, 0 >>, << 100, 300, 0 >>, << 0, 200, 480 >> }

ArgInputs ==
    { [ liquid_billions   |-> l,
        monthly_save      |-> c[1],
        monthly_spend     |-> c[2],
        inflation         |-> inf,
        return_rate       |-> r,
        annual_hobby_cost |-> c[3] ] :
      l \in {0, 1}, c \in CashInputs, inf \in Rates, r \in Rates }

\* --------------------------------------------------------------- the engine
\* slip: the horizon without its last year
PeriodExclusive(current_age, death_age) == death_age - current_age

\* WannabeEngine.__init__
Period(current_age, death_age) == death_age - current_age + 1

NewEngine(current_age, retire_age, death_age) ==
    [ current_age |-> current_age, retire_age |-> retire_age,
      death_age |-> death_age, period |-> Period(current_age, death_age) ]

\* slip: a degenerate horizon still runs one year
LoopLengthAtLeastOne(e) == Max(1, e.period)

\* range(self.period)
LoopLength(e) == Max(0, e.period)

\* references and the two places a dict can live
Ref(area, k) == [area |-> area, idx |-> k]
Deref(heap, r) ==
    IF r.area = "properties" THEN heap.properties[r.idx] ELSE heap.copies[r.idx]
Update(heap, r, d) ==
    IF r.area = "properties"
    THEN [heap EXCEPT !.properties[r.idx] = d]
    ELSE [heap EXCEPT !.copies[r.idx] = d]

\* slip: props = properties_list, the working list is the caller's list
AliasProps(properties_list) ==
    [ props  |-> [k \in 1 .. Len(properties_list) |-> Ref("properties", k)],
      copies |-> << >> ]

\* slip: props = list(properties_list), a new list of the caller's dicts
ShallowCopyProps(properties_list) ==
    [ props  |-> [k \in 1 .. Len(properties_list) |-> Ref("properties", k)],
      copies |-> << >> ]

\* slip: props = properties_list.copy(), which copies the list only
ListCopyProps(properties_list) ==
    [ props  |-> [k \in 1 .. Len(properties_list) |-> Ref("properties", k)],
      copies |-> << >> ]

\* props = [p.copy() for p in properties_list]
CopyProps(properties_list) ==
    [ props  |-> [k \in 1 .. Len(properties_list) |-> Ref("copies", k)],
      copies |-> properties_list ]

\* slip: the starting amount scaled by 10000 instead of 100000000
LiquidInMan(a) == a.liquid_billions * MAN_WON * FP

\* lines 208-210
Liquid(a)          == a.liquid_billions * EOK_WON * FP
AnnualSave(a)      == a.monthly_save * MONTHS * MAN_WON * FP
BaseAnnualSpend(a) ==
    (a.monthly_spend * MONTHS * MAN_WON * FP) + (a.annual_hobby_cost * FP)

\* slip: the retirement year still counts as a saving year
CashflowRetireLate(e, a, age, i, liquid) ==
    IF age <= e.retire_age
    THEN liquid + AnnualSave(a)
    ELSE liquid - TimesOnePlusPow(BaseAnnualSpend(a), a.inflation, i)

\* lines 225-229: the year's savings or spending
Cashflow(e, a, age, i, liquid) ==
    IF age < e.retire_age
    THEN liquid + AnnualSave(a)
    ELSE liquid - TimesOnePlusPow(BaseAnnualSpend(a), a.inflation, i)

\* line 235, 236
GrossVal(e, a, p, age) ==
    TimesOnePlusPow(p.current_val * EOK_WON * FP, a.inflation,
                    age - e.current_age)
LoanAmt(p) == p.loan * EOK_WON * FP

\* slip: the strategy is not looked at
SaleDueAnyStrategy(p, age) == age = p.sell_age

\* slip: a sale age that has passed triggers the sale
SaleDueFrom(p, age) == p.strategy = Sell /\ age >= p.sell_age

\* line 239
SaleDue(p, age) == p.strategy = Sell /\ age = p.sell_age

\* slip: a loss yields a negative tax
TaxOnLoss(capital_gain) == Div(capital_gain, TAX_RATE_DEN)

\* line 242
Tax(capital_gain) ==
    IF capital_gain > 0 THEN Div(capital_gain, TAX_RATE_DEN) ELSE 0

\* slip: the equity of the year of the sale is still counted
EquityKept(net_equity) == net_equity

\* line 246
EquityAfterSale(net_equity) == 0

\* slip: the sold flag is never looked at
IsSoldIgnored(p) == FALSE

\* line 233: p.get('is_sold', False)
IsSold(p) == p.is_sold

\* lines 233-247: the body of "for p in props" for one p
PropStep(e, a, age, r, acc) ==
    LET p == Deref(acc.heap, r) IN
    IF IsSold(p)
    THEN [acc EXCEPT !.per = Append(@,
            [visited |-> FALSE, sold |-> FALSE, gross_val |-> 0,
             net_equity |-> 0, tax |-> 0, cash_in_hand |-> 0])]
    ELSE
      LET gross_val    == GrossVal(e, a, p, age)
          loan_amt     == LoanAmt(p)
          net_equity   == Max(0, gross_val - loan_amt)
          purchase_val == p.purchase_price * EOK_WON * FP
          capital_gain == gross_val - purchase_val
          tax          == Tax(capital_gain)
          cash_in_hand == gross_val - loan_amt - tax
      IN
      IF SaleDue(p, age)
      THEN [ current_liquid     |-> acc.current_liquid + cash_in_hand,
             current_re_net_val |-> acc.current_re_net_val
                                      + EquityAfterSale(net_equity),
             heap |-> Update(acc.heap, r, [p EXCEPT !.is_sold = TRUE]),
             per  |-> Append(acc.per,
                [visited |-> TRUE, sold |-> TRUE, gross_val |-> gross_val,
                 net_equity |-> EquityAfterSale(net_equity), tax |-> tax,
                 cash_in_hand |-> cash_in_hand]) ]
      ELSE [ current_liquid     |-> acc.current_liquid,
             current_re_net_val |-> acc.current_re_net_val + net_equity,
             heap |-> acc.heap,
             per  |-> Append(acc.per,
                [visited |-> TRUE, sold |-> FALSE, gross_val |-> gross_val,
                 net_equity |-> net_equity, tax |-> 0,
                 cash_in_hand |-> 0]) ]

\* lines 231-247: "for p in props"
RECURSIVE PropLoop(_, _, _, _, _, _)
PropLoop(e, a, age, ps, j, acc) ==
    IF j > Len(ps) THEN acc
    ELSE PropLoop(e, a, age, ps, j + 1, PropStep(e, a, age, ps[j], acc))

\* slip: a balance of exactly zero counts as a shortfall
ShortfallCheckAtZero(sa, liquid, age) ==
    IF liquid <= 0 /\ sa = None THEN Some(age) ELSE sa

\* slip: the recorded age is overwritten by every later negative year
ShortfallCheckLatest(sa, liquid, age) ==
    IF liquid < 0 THEN Some(age) ELSE sa

\* lines 249-250
ShortfallCheck(sa, liquid, age) ==
    IF liquid < 0 /\ sa = None THEN Some(age) ELSE sa

\* lines 221-253: one iteration of "for i in range(self.period)"
LoopBody(e, a, ps, loc) ==
    LET i   == Len(loc.ages)
        age == e.current_age + i
        after_return   == TimesOnePlus(loc.current_liquid, a.return_rate)
        after_cashflow == Cashflow(e, a, age, i, after_return)
        acc == PropLoop(e, a, age, ps, 1,
                 [ current_liquid |-> after_cashflow,
                   current_re_net_val |-> 0,
                   heap |-> loc.heap, per |-> << >> ])
    IN
    [ ages                |-> Append(loc.ages, age),
      current_liquid      |-> acc.current_liquid,
      shortfall_age       |-> ShortfallCheck(loc.shortfall_age,
                                             acc.current_liquid, age),
      liquid_history      |-> Append(loc.liquid_history,
                                     InEok(acc.current_liquid)),
      real_estate_history |-> Append(loc.real_estate_history,
                                     InEok(acc.current_re_net_val)),
      heap  |-> acc.heap,
      trace |-> Append(loc.trace,
                  [ age |-> age, liquid_in |-> loc.current_liquid,
                    after_return |-> after_return,
                    after_cashflow |-> after_cashflow,
                    liquid_out |-> acc.current_liquid,
                    per |-> acc.per ]) ]

\* lines 208-218: the state of run_simulation on entry to the loop
Entry(a, properties_list) ==
    LET c == CopyProps(properties_list) IN
    [ props |-> c.props,
      loc   |-> [ ages |-> << >>, current_liquid |-> Liquid(a),
                  shortfall_age |-> None, liquid_history |-> << >>,
                  real_estate_history |-> << >>,
                  heap |-> [properties |-> properties_list,
                            copies |-> c.copies],
                  trace |-> << >> ] ]

\* the whole of run_simulation as a function of its arguments
RECURSIVE RunLoop(_, _, _, _)
RunLoop(e, a, ps, loc) ==
    IF Len(loc.ages) >= LoopLength(e) THEN loc
    ELSE RunLoop(e, a, ps, LoopBody(e, a, ps, loc))

run_simulation(e, a, properties_list) ==
    LET en == Entry(a, properties_list) IN RunLoop(e, a, en.props, en.loc)

\* line 255: the returned tuple
Result(loc) ==
    [ ages |-> loc.ages, liquid_history |-> loc.liquid_history,
      real_estate_history |-> loc.real_estate_history,
      shortfall_age |-> loc.shortfall_age ]

\* slip: the boundaries are exclusive
calculate_score_strict(e, sa) ==
    IF sa = None THEN << 100, "Perfect" >>
    ELSE LET gap == e.death_age - Val(sa) IN
         IF gap < 0 THEN << 90, "Stable" >>
         ELSE IF gap < 5 THEN << 70, "Caution" >>
         ELSE IF gap < 10 THEN << 50, "Danger" >>
         ELSE << 30, "Critical" >>

\* slip: the gap is taken the other way round
calculate_score_reversed(e, sa) ==
    IF sa = None THEN << 100, "Perfect" >>
    ELSE LET gap == Val(sa) - e.death_age IN
         IF gap <= 0 THEN << 90, "Stable" >>
         ELSE IF gap <= 5 THEN << 70, "Caution" >>
         ELSE IF gap <= 10 THEN << 50, "Danger" >>
         ELSE << 30, "Critical" >>

\* WannabeEngine.calculate_score
calculate_score(e, sa) ==
    IF sa = None THEN << 100, "Perfect" >>
    ELSE LET gap == e.death_age - Val(sa) IN
         IF gap <= 0 THEN << 90, "Stable" >>
         ELSE IF gap <= 5 THEN << 70, "Caution" >>
         ELSE IF gap <= 10 THEN << 50, "Danger" >>
         ELSE << 30, "Critical" >>

\* ------------------------------------------------- lead persistence
\* What the outside world does to one call of save_data_to_gsheet: which
\* secret is configured, and for each library call whether it raises.
\* Each record is one path through the two functions.
SheetEnv(secrets, authorize, open, values, header, row) ==
    [ secrets |-> secrets, authorize |-> authorize, open |-> open,
      values |-> values, header |-> header, row |-> row ]

SheetEnvs ==
    { SheetEnv("none", "ok", "ok", "rows", "ok", "ok"),
      SheetEnv("service_account", "raise", "ok", "rows", "ok", "ok"),
      SheetEnv("gcp_service_account", "ok", "raise", "rows", "ok", "ok"),
      SheetEnv("service_account", "ok", "ok", "raise", "ok", "ok"),
      SheetEnv("service_account", "ok", "ok", "empty", "raise", "ok"),
      SheetEnv("service_account", "ok", "ok", "empty", "ok", "raise"),
      SheetEnv("service_account", "ok", "ok", "empty", "ok", "ok"),
      SheetEnv("gcp_service_account", "ok", "ok", "rows", "ok", "ok") }

\* the outcome of a call: the returned value, or an exception that leaves
\* the function, with the number of client.open and append_row calls made
Outcome(ret, raised, opens, appends) ==
    [ ret |-> ret, raised |-> raised, opens |-> opens, appends |-> appends ]

\* slip: get_google_sheet_client without its try/except
get_google_sheet_client_unguarded(env) ==
    IF env.secrets = "none" THEN Outcome("None", FALSE, 0, 0)
    ELSE IF env.authorize = "raise" THEN Outcome("None", TRUE, 0, 0)
    ELSE Outcome("client", FALSE, 0, 0)

\* get_google_sheet_client, lines 170-182
get_google_sheet_client(env) ==
    LET body == IF env.secrets = "none" THEN Outcome("None", FALSE, 0, 0)
                ELSE IF env.authorize = "raise"
                     THEN Outcome("None", TRUE, 0, 0)
                     ELSE Outcome("client", FALSE, 0, 0)
    IN IF body.raised THEN Outcome("None", FALSE, 0, 0) ELSE body

\* lines 188-192: the body of the try block
SheetWrites(env) ==
    IF env.open = "raise" THEN Outcome(None, TRUE, 1, 0)
    ELSE IF env.values = "raise" THEN Outcome(None, TRUE, 1, 0)
    ELSE LET h == IF env.values = "empty" THEN 1 ELSE 0 IN
         IF h = 1 /\ env.header = "raise" THEN Outcome(None, TRUE, 1, 0)
         ELSE IF env.row = "raise" THEN Outcome(None, TRUE, 1, h)
         ELSE Outcome(<< TRUE, "saved" >>, FALSE, 1, h + 1)

\* save_data_to_gsheet, lines 184-194
save_data_to_gsheet(env) ==
    LET client == get_google_sheet_client(env) IN
    IF client.raised THEN Outcome(None, TRUE, 0, 0)
    ELSE IF client.ret = "None"
    THEN Outcome(<< FALSE, "connect_failed" >>, FALSE, 0, 0)
    ELSE LET body == SheetWrites(env) IN
         IF body.raised
         THEN Outcome(<< FALSE, "save_error" >>, FALSE, body.opens,
                      body.appends)
         ELSE body

\* ------------------------------------------------------------- the script
\* the locals of run_simulation, as one record
Loc == [ ages |-> ages, current_liquid |-> current_liquid,
         shortfall_age |-> shortfall_age,
         liquid_history |-> liquid_history,
         real_estate_history |-> real_estate_history,
         heap |-> [properties |-> properties, copies |-> copies],
         trace |-> trace ]

SetLoc(l) ==
    /\ ages' = l.ages
    /\ current_liquid' = l.current_liquid
    /\ shortfall_age' = l.shortfall_age
    /\ liquid_history' = l.liquid_history
    /\ real_estate_history' = l.real_estate_history
    /\ properties' = l.heap.properties
    /\ copies' = l.heap.copies
    /\ trace' = l.trace

NoEngine == [ current_age |-> BaseAge, retire_age |-> BaseAge,
              death_age |-> BaseAge, period |-> 1 ]
NoArgs   == [ liquid_billions |-> 0, monthly_save |-> 0, monthly_spend |-> 0,
              inflation |-> 0, return_rate |-> 0, annual_hobby_cost |-> 0 ]

\* a script run starts with none of the previous run's variables
FreshRun ==
    /\ self' = NoEngine
    /\ args' = NoArgs
    /\ props' = << >>
    /\ copies' = << >>
    /\ current_liquid' = 0
    /\ shortfall_age' = None
    /\ ages' = << >>
    /\ liquid_history' = << >>
    /\ real_estate_history' = << >>
    /\ trace' = << >>
    /\ score' = None
    /\ first' = None
    /\ save' = None
    /\ UNCHANGED widgets

\* lines 167-168: first script run of a session
Init ==
    /\ properties = << >>
    /\ self = NoEngine
    /\ args = NoArgs
    /\ pc = "sidebar"
    /\ props = << >>
    /\ copies = << >>
    /\ current_liquid = 0
    /\ shortfall_age = None
    /\ ages = << >>
    /\ liquid_history = << >>
    /\ real_estate_history = << >>
    /\ trace = << >>
    /\ score = None
    /\ first = None
    /\ save = None
    /\ widgets = None

\* lines 278-287, 340-357: the script reads the widgets, builds the engine
\* and enters run_simulation
Main ==
    /\ pc = "sidebar"
    /\ \E pr \in Profiles, a \in ArgInputs :
          /\ self' = NewEngine(pr[1], pr[2], pr[3])
          /\ args' = a
          /\ LET en == Entry(a, properties) IN
                /\ props' = en.props
                /\ SetLoc(en.loc)
    /\ pc' = "loop"
    /\ score' = None
    /\ first' = None
    /\ UNCHANGED << save, widgets >>

\* lines 220-253: one pass through the loop body
LoopIteration ==
    /\ pc = "loop"
    /\ Len(ages) < LoopLength(self)
    /\ SetLoc(LoopBody(self, args, props, Loc))
    /\ UNCHANGED << self, args, pc, props, score, first, save, widgets >>

\* line 255: the loop is exhausted and run_simulation returns
Return ==
    /\ pc = "loop"
    /\ Len(ages) >= LoopLength(self)
    /\ pc' = "returned"
    /\ UNCHANGED << properties, self, args, props, copies, current_liquid,
                    shortfall_age, ages, liquid_history,
                    real_estate_history, trace, score, first, save,
                    widgets >>

\* line 358
Score ==
    /\ pc = "returned"
    /\ score' = Some(calculate_score(self, shortfall_age))
    /\ pc' = "scored"
    /\ UNCHANGED << properties, self, args, props, copies, current_liquid,
                    shortfall_age, ages, liquid_history,
                    real_estate_history, trace, first, save, widgets >>

\* the script runs again with every widget unchanged (for instance after the
\* lead form is submitted): the same engine arguments and the same list
Rerun ==
    /\ pc = "scored"
    /\ first = None
    /\ first' = Some(Result(Loc))
    /\ LET en == Entry(args, properties) IN
          /\ props' = en.props
          /\ SetLoc(en.loc)
    /\ pc' = "loop"
    /\ score' = None
    /\ UNCHANGED << self, args, save, widgets >>

\* lines 515-546: the script run started by submitting the lead form has
\* reached the handler: it builds the row (reading liq_norm[-1], an
\* IndexError on an empty series) and calls save_data_to_gsheet once
SubmitLead ==
    /\ pc = "scored"
    /\ first # None
    /\ IF liquid_history = << >>
       THEN /\ pc' = "crashed"
            /\ save' = save
       ELSE /\ pc' = "saved"
            /\ \E env \in SheetEnvs :
                  save' = Some([env |-> env, out |-> save_data_to_gsheet(env)])
    /\ UNCHANGED << properties, self, args, props, copies, current_liquid,
                    shortfall_age, ages, liquid_history,
                    real_estate_history, trace, score, first, widgets >>

\* the script has run to its end (or stopped on an exception) and the page
\* waits for the user
Idle == pc \in {"scored", "saved", "crashed"}

\* a widget changes: the script starts over
WidgetChange ==
    /\ Idle
    /\ pc' = "sidebar"
    /\ FreshRun
    /\ UNCHANGED properties

\* lines 308-315: the property form is submitted
AddProperty ==
    /\ Idle
    /\ Len(properties) < MaxProps
    /\ \E p \in PropertyInputs : properties' = Append(properties, p)
    /\ pc' = "sidebar"
    /\ FreshRun

\* lines 335-337: the X button of property i
DeleteProperty ==
    /\ Idle
    /\ \E k \in 1 .. Len(properties) :
          properties' = SubSeq(properties, 1, k - 1)
                          \o SubSeq(properties, k + 1, Len(properties))
    /\ pc' = "sidebar"
    /\ FreshRun

Next ==
    \/ Main
    \/ LoopIteration
    \/ Return
    \/ Score
    \/ Rerun
    \/ SubmitLead
    \/ WidgetChange
    \/ AddProperty
    \/ DeleteProperty

Spec == Init /\ [][Next]_vars

\* ------------------------------------------- calculate_score on its own
\* calculate_score is a method any caller may apply to any shortfall age:
\* the engine's death_age and the argument are drawn from ranges around
\* each other, and Score applies the method
ScoreDeathAges == DEATH_AGE_MIN .. (DEATH_AGE_MIN + MaxGap)
ScoreShortfalls(da) ==
    {None} \cup {Some(x) : x \in (da - MaxGap) .. (da + 2)}

ScoreInit ==
    /\ properties = << >>
    /\ \E da \in ScoreDeathAges :
          /\ self = NewEngine(BaseAge, BaseAge, da)
          /\ shortfall_age \in ScoreShortfalls(da)
    /\ args = NoArgs
    /\ pc = "returned"
    /\ props = << >>
    /\ copies = << >>
    /\ current_liquid = 0
    /\ ages = << >>
    /\ liquid_history = << >>
    /\ real_estate_history = << >>
    /\ trace = << >>
    /\ score = None
    /\ first = None
    /\ save = None
    /\ widgets = None

ScoreNext == Score

ScoreSpec == ScoreInit /\ [][ScoreNext]_vars

\* ------------------------------------------------ the sidebar widgets
\* The two scripts of the repository, with the ages their number inputs
\* allow.  The projection itself is run on short horizons (Spec); here the
\* page is rendered up to the construction of the engine.
Scripts == {"Wannabe_Life_Plan", "WannabeRetirementEngine"}

\* slip: the life-expectancy input starts ten years lower
AgeDeathInputsFrom70 == (DEATH_AGE_MIN - 10) .. DEATH_AGE_MAX

\* number_input bounds, lines 278-280 (196-198 in the other script)
AgeCurrInputs   == CURR_AGE_MIN .. CURR_AGE_MAX
AgeRetireInputs == {RETIRE_AGE_MIN, RETIRE_AGE_MAX}
AgeDeathInputs  == DEATH_AGE_MIN .. DEATH_AGE_MAX

\* the sale-age slider: Wannabe_Life_Plan.py lines 299-301 clamp the
\* default, WannabeRetirementEngine.py line 217 passes 75
PropSlider(script, age_curr) ==
    [ min_value |-> age_curr,
      max_value |-> SELL_AGE_MAX,
      value     |-> IF script = "Wannabe_Life_Plan"
                    THEN Min(Max(age_curr, SELL_AGE_DEFAULT), SELL_AGE_MAX)
                    ELSE SELL_AGE_DEFAULT ]

\* st.slider raises StreamlitAPIException for a value outside its bounds
SliderAccepts(sl) == sl.min_value <= sl.value /\ sl.value <= sl.max_value

UIInit ==
    /\ properties = << >>
    /\ self = NoEngine
    /\ args = NoArgs
    /\ pc = "sidebar"
    /\ props = << >>
    /\ copies = << >>
    /\ current_liquid = 0
    /\ shortfall_age = None
    /\ ages = << >>
    /\ liquid_history = << >>
    /\ real_estate_history = << >>
    /\ trace = << >>
    /\ score = None
    /\ first = None
    /\ save = None
    /\ \E sc \in Scripts, ac \in AgeCurrInputs, ar \in AgeRetireInputs,
          ad \in AgeDeathInputs :
          widgets = Some([ script |-> sc, age_curr |-> ac, age_retire |-> ar,
                           age_death |-> ad, p_sell |-> None ])

\* the property form is rendered; a rejected slider ends the script run
RenderPropForm ==
    /\ pc = "sidebar"
    /\ widgets # None
    /\ LET w  == Val(widgets)
           sl == PropSlider(w.script, w.age_curr)
       IN /\ widgets' = Some([w EXCEPT !.p_sell = Some(sl)])
          /\ pc' = IF SliderAccepts(sl) THEN "form" ELSE "crashed"
    /\ UNCHANGED << properties, self, args, props, copies, current_liquid,
                    shortfall_age, ages, liquid_history,
                    real_estate_history, trace, score, first, save >>

\* line 356: the engine is built from the profile inputs
Construct ==
    /\ pc = "form"
    /\ LET w == Val(widgets) IN
          self' = NewEngine(w.age_curr, w.age_retire, w.age_death)
    /\ pc' = "engine"
    /\ UNCHANGED << properties, args, props, copies, current_liquid,
                    shortfall_age, ages, liquid_history,
                    real_estate_history, trace, score, first, save,
                    widgets >>

UINext ==
    \/ RenderPropForm
    \/ Construct

UISpec == UIInit /\ [][UINext]_vars

\* ------------------------------------------------------------- properties
Returned == pc \in {"returned", "scored"}
InRun    == pc \in {"loop", "returned", "scored"}
Heap     == [properties |-> properties, copies |-> copies]

\* the list without its k-th element
Without(list, k) == SubSeq(list, 1, k - 1) \o SubSeq(list, k + 1, Len(list))

RECURSIVE SumEquity(_)
SumEquity(per) ==
    IF per = << >> THEN 0 ELSE per[1].net_equity + SumEquity(Tail(per))
RECURSIVE SumCash(_)
SumCash(per) ==
    IF per = << >> THEN 0 ELSE per[1].cash_in_hand + SumCash(Tail(per))

\* the per-property values of a year are what the year's totals are made of
YearTotals ==
    \A y \in 1 .. Len(trace) :
       /\ Len(trace[y].per) = Len(props)
       /\ real_estate_history[y] = InEok(SumEquity(trace[y].per))
       /\ trace[y].liquid_out = trace[y].after_cashflow + SumCash(trace[y].per)
       /\ liquid_history[y] = InEok(trace[y].liquid_out)
       /\ ages[y] = trace[y].age

\* C1: for endAge >= currentAge the three returned series have exactly
\* endAge - currentAge + 1 entries and ages is currentAge, currentAge+1,
\* ..., endAge
C1_SeriesShape ==
    (Returned /\ self.death_age >= self.current_age) =>
        LET n == self.death_age - self.current_age + 1 IN
        /\ Len(ages) = n
        /\ Len(liquid_history) = n
        /\ Len(real_estate_history) = n
        /\ \A k \in 1 .. n : ages[k] = self.current_age + k - 1
        /\ \A k \in 1 .. n - 1 : ages[k] < ages[k + 1]

C1_Witness ==
    /\ pc = "returned"
    /\ self.death_age >= self.current_age + 2
    /\ Len(ages) = self.death_age - self.current_age + 1
    /\ ages[Len(ages)] = self.death_age

\* C2: the returned shortfall age is the smallest age whose recorded liquid
\* value is negative, and None exactly when no recorded value is negative
C2_ShortfallIsFirstNegative ==
    Returned =>
        LET neg == {k \in 1 .. Len(ages) : IsNegative(liquid_history[k])} IN
        /\ (shortfall_age = None) <=> (neg = {})
        /\ neg # {} =>
              /\ Val(shortfall_age) \in {ages[k] : k \in neg}
              /\ \A k \in neg : Val(shortfall_age) <= ages[k]

\* a shortfall produced by the year's sale: cash was not negative before
\* the proceeds of that year were added
C2_Witness ==
    /\ pc = "returned"
    /\ shortfall_age # None
    /\ \E y \in 1 .. Len(trace) :
          /\ trace[y].age = Val(shortfall_age)
          /\ y > 1
          /\ trace[y].after_cashflow >= 0
          /\ trace[y].liquid_out < 0
          /\ IsNegative(liquid_history[y])

\* C3: within a run, a shortfall age that has been set keeps its value in
\* every later year and in the returned result
C3_ShortfallSticky ==
    [][(pc = "loop" /\ shortfall_age # None)
          => shortfall_age' = shortfall_age]_vars

\* cash went negative, recovered after a sale, and the age was kept
C3_Witness ==
    /\ pc = "returned"
    /\ shortfall_age # None
    /\ \E y \in 1 .. Len(trace) :
          /\ trace[y].age > Val(shortfall_age)
          /\ trace[y].liquid_out >= 0
          /\ \E k \in 1 .. Len(trace[y].per) : trace[y].per[k].sold

\* C4: calculate_score maps no shortfall to (100, Perfect) and otherwise,
\* with gap = endAge - shortfallAge, gap <= 0 to (90, Stable), 1..5 to
\* (70, Caution), 6..10 to (50, Danger) and more than 10 to (30, Critical)
C4_ScoreTable ==
    pc = "scored" =>
        /\ score # None
        /\ shortfall_age = None => Val(score) = << 100, "Perfect" >>
        /\ shortfall_age # None =>
              LET gap == self.death_age - Val(shortfall_age) IN
              /\ gap <= 0 => Val(score) = << 90, "Stable" >>
              /\ (0 < gap /\ gap <= 5) => Val(score) = << 70, "Caution" >>
              /\ (5 < gap /\ gap <= 10) => Val(score) = << 50, "Danger" >>
              /\ gap > 10 => Val(score) = << 30, "Critical" >>
              /\ gap = 0 => Val(score)[2] = "Stable"
              /\ gap = 5 => Val(score)[2] = "Caution"
              /\ gap = 10 => Val(score)[2] = "Danger"
              /\ gap = 11 => Val(score)[2] = "Critical"

C4_Witness ==
    /\ pc = "scored"
    /\ shortfall_age # None
    /\ self.death_age - Val(shortfall_age) = 10
    /\ score = Some(<< 50, "Danger" >>)

\* C5: no step of run_simulation (entering it, a year of the loop, the
\* return) changes the caller's property list or any of its records
C5_CallerListUnchanged ==
    [][(pc' \in {"loop", "returned"}) => properties' = properties]_vars

\* the run sold a property and the caller's record is still unsold
C5_Witness ==
    /\ pc = "returned"
    /\ \E k \in 1 .. Len(props) :
          /\ Deref(Heap, props[k]).is_sold
          /\ \E y \in 1 .. Len(trace) : trace[y].per[k].sold
          /\ ~ properties[k].is_sold

\* C6: a second call with the same engine, arguments and list returns the
\* same ages, liquid series, real-estate series and shortfall age
C6_RepeatedRunEqual ==
    (pc = "returned" /\ first # None) => Result(Loc) = Val(first)

\* both runs sold a property
C6_Witness ==
    /\ pc = "returned"
    /\ first # None
    /\ Len(ages) >= 2
    /\ \E y \in 1 .. Len(trace) :
          \E k \in 1 .. Len(trace[y].per) :
             trace[y].per[k].sold /\ trace[y].per[k].cash_in_hand # 0

\* C7: a Sell property with sale age s inside the horizon adds its floored
\* net equity and no cash at every age before s, adds gross - loan - tax
\* (not floored) to cash at age s, and adds no equity at s and afterwards
\* and no cash afterwards
C7_SellContribution ==
    InRun =>
      /\ YearTotals
      /\ \A k \in 1 .. Len(properties) :
         LET p == properties[k] IN
         (p.strategy = Sell /\ p.sell_age >= self.current_age
                            /\ p.sell_age <= self.death_age) =>
            \A y \in 1 .. Len(trace) :
               LET t     == trace[y].per[k]
                   age   == trace[y].age
                   gross == GrossVal(self, args, p, age)
                   gain  == gross - p.purchase_price * EOK_WON * FP
               IN
               /\ age < p.sell_age =>
                     /\ t.net_equity = Max(0, gross - LoanAmt(p))
                     /\ t.cash_in_hand = 0
               /\ age = p.sell_age =>
                     /\ t.net_equity = 0
                     /\ IF gain > 0
                        THEN TAX_RATE_DEN * (gross - LoanAmt(p)
                                               - t.cash_in_hand) = gain
                        ELSE t.cash_in_hand = gross - LoanAmt(p)
               /\ age > p.sell_age =>
                     /\ t.net_equity = 0
                     /\ t.cash_in_hand = 0

\* a sale with negative proceeds in the middle of the horizon, with equity
\* before it
C7_Witness ==
    /\ pc = "returned"
    /\ \E k \in 1 .. Len(properties) :
          /\ properties[k].strategy = Sell
          /\ \E y \in 2 .. (Len(trace) - 1) :
                /\ trace[y].age = properties[k].sell_age
                /\ trace[y].per[k].cash_in_hand < 0
                /\ trace[y + 1].per[k].net_equity = 0
          /\ \E z \in 1 .. Len(properties) :
                /\ properties[z].strategy = Sell
                /\ trace[1].per[z].net_equity > 0
                /\ trace[2].per[z].cash_in_hand > 0

\* C8: an Inherit property adds its floored net equity in every year, is
\* never marked sold, and the liquid series equals that of the same run
\* without the property
C8_InheritContribution ==
    InRun =>
      \A k \in 1 .. Len(properties) :
         properties[k].strategy = Inherit =>
            /\ ~ Deref(Heap, props[k]).is_sold
            /\ \A y \in 1 .. Len(trace) :
                  LET t == trace[y].per[k]
                      gross == TimesOnePlusPow(
                                  properties[k].current_val * EOK_WON * FP,
                                  args.inflation,
                                  trace[y].age - self.current_age)
                  IN
                  /\ t.visited
                  /\ t.net_equity = Max(0, gross - LoanAmt(properties[k]))
                  /\ t.cash_in_hand = 0
            /\ Returned =>
                  liquid_history =
                     run_simulation(self, args,
                                    Without(properties, k)).liquid_history

\* an Inherit property whose stored sale age falls inside the horizon, with
\* equity floored at zero in one year and positive in a later one
C8_Witness ==
    /\ pc = "returned"
    /\ \E k \in 1 .. Len(properties) :
          /\ properties[k].strategy = Inherit
          /\ properties[k].sell_age \in {trace[y].age : y \in 1 .. Len(trace)}
          /\ \E y \in 1 .. Len(trace) :
                /\ trace[y].per[k].net_equity = 0
                /\ trace[Len(trace)].per[k].net_equity > 0
                /\ trace[Len(trace)].age = self.death_age

\* C9: at a sale the tax is a quarter of the gain when the gross value
\* exceeds the purchase price and 0 otherwise; it is never negative and
\* the proceeds never exceed gross - loan
C9_Tax ==
    InRun =>
      \A y \in 1 .. Len(trace) :
         \A k \in 1 .. Len(trace[y].per) :
            LET t == trace[y].per[k]
                purchase == Deref(Heap, props[k]).purchase_price
                               * EOK_WON * FP
                loan == Deref(Heap, props[k]).loan * EOK_WON * FP
            IN
            t.sold =>
               /\ t.gross_val > purchase =>
                     TAX_RATE_DEN * t.tax = t.gross_val - purchase
               /\ t.gross_val <= purchase => t.tax = 0
               /\ t.tax >= 0
               /\ t.cash_in_hand = t.gross_val - loan - t.tax
               /\ t.cash_in_hand <= t.gross_val - loan

\* a sale below the purchase price
C9_Witness ==
    /\ pc = "returned"
    /\ \E y \in 1 .. Len(trace) :
          \E k \in 1 .. Len(trace[y].per) :
             /\ trace[y].per[k].sold
             /\ trace[y].per[k].gross_val
                   < properties[k].purchase_price * EOK_WON * FP
             /\ trace[y].per[k].tax = 0

\* C10: in every year cash is first multiplied by (1 + returnRate); then,
\* before any sale, savings are added if age < retirementAge and otherwise
\* baseAnnualSpend * (1 + inflation)^(age - currentAge) is subtracted
C10_ReturnThenCashflow ==
    InRun =>
      \A y \in 1 .. Len(trace) :
         LET t == trace[y]
             n == t.age - self.current_age
             base == (args.monthly_spend * MONTHS * MAN_WON
                        + args.annual_hobby_cost) * FP
         IN
         /\ t.age = self.current_age + y - 1
         /\ t.liquid_in = IF y = 1 THEN args.liquid_billions * EOK_WON * FP
                          ELSE trace[y - 1].liquid_out
         /\ RATE_DEN * t.after_return
               = t.liquid_in * (RATE_DEN + args.return_rate)
         /\ t.age < self.retire_age =>
               t.after_cashflow
                  = t.after_return + args.monthly_save * MONTHS * MAN_WON * FP
         /\ t.age >= self.retire_age =>
               Pow(RATE_DEN, n) * (t.after_return - t.after_cashflow)
                  = base * Pow(RATE_DEN + args.inflation, n)
         /\ self.retire_age <= self.current_age =>
               t.after_cashflow <= t.after_return

\* a run with a saving year followed by spending years under inflation and
\* a positive return
C10_Witness ==
    /\ pc = "returned"
    /\ args.return_rate > 0
    /\ args.inflation > 0
    /\ args.liquid_billions > 0
    /\ \E y \in 1 .. Len(trace) :
          /\ trace[y].age < self.retire_age
          /\ trace[y].after_cashflow > trace[y].after_return
    /\ \E y \in 2 .. Len(trace) :
          /\ trace[y].age > self.retire_age
          /\ trace[y].after_cashflow < trace[y].after_return

\* C11: with no properties, no savings and no spending (living cost and
\* add-on both zero) the liquid value recorded at year index i is
\* start * (1 + returnRate)^(i+1); with returnRate = 0 it is the start
C11_PureCompounding ==
    (InRun /\ properties = << >> /\ args.monthly_save = 0
           /\ args.monthly_spend = 0 /\ args.annual_hobby_cost = 0) =>
       \A y \in 1 .. Len(liquid_history) :
          LET q == liquid_history[y] IN
          /\ q.num * Pow(RATE_DEN, y)
                = args.liquid_billions * q.den
                     * Pow(RATE_DEN + args.return_rate, y)
          /\ args.return_rate = 0 => q.num = args.liquid_billions * q.den

C11_Witness ==
    /\ pc = "returned"
    /\ properties = << >>
    /\ args.monthly_save = 0 /\ args.monthly_spend = 0
    /\ args.annual_hobby_cost = 0
    /\ args.liquid_billions > 0
    /\ args.return_rate > 0
    /\ Len(liquid_history) >= 3
    /\ liquid_history[3].num > liquid_history[2].num

\* C12: when endAge < currentAge the projection fails with an invalid-range
\* error: run_simulation never returns a result for such an engine
C12_InvalidRangeRejected ==
    ~ (Returned /\ self.death_age < self.current_age)

\* C13: when endAge < currentAge run_simulation executes no loop iteration
\* and returns three empty series and no shortfall age, and calculate_score
\* gives (100, Perfect)
C13_EmptyResult ==
    (InRun /\ self.death_age < self.current_age) =>
        /\ trace = << >>
        /\ ages = << >>
        /\ liquid_history = << >>
        /\ real_estate_history = << >>
        /\ shortfall_age = None
        /\ pc = "scored" => score = Some(<< 100, "Perfect" >>)

\* a plan that spends from the first year with nothing to spend, and a
\* negative loop count
C13_Witness ==
    /\ pc = "scored"
    /\ self.period < 0
    /\ args.liquid_billions = 0
    /\ args.monthly_spend > 0
    /\ properties # << >>
    /\ score = Some(<< 100, "Perfect" >>)

\* C14: within a run a working copy is sold at most once, its flag is set
\* from the year of the sale on, and in every later year it is skipped: no
\* appreciation, no equity, no proceeds
C14_SoldOnceThenSkipped ==
    InRun =>
      \A k \in 1 .. Len(props) :
         LET sales == {y \in 1 .. Len(trace) : trace[y].per[k].sold} IN
         /\ Cardinality(sales) <= 1
         /\ Deref(Heap, props[k]).is_sold <=> sales # {}
         /\ \A y \in sales :
               /\ \A z \in 1 .. (y - 1) : trace[z].per[k].visited
               /\ \A z \in (y + 1) .. Len(trace) :
                     /\ ~ trace[z].per[k].visited
                     /\ trace[z].per[k].gross_val = 0
                     /\ trace[z].per[k].net_equity = 0
                     /\ trace[z].per[k].cash_in_hand = 0

\* a property sold in the first year and skipped in at least two later ones
C14_Witness ==
    /\ pc = "returned"
    /\ args.inflation > 0
    /\ Len(trace) >= 3
    /\ \E k \in 1 .. Len(props) :
          /\ trace[1].per[k].sold
          /\ ~ trace[3].per[k].visited
          /\ Deref(Heap, props[k]).is_sold

\* C15: with no properties, a positive start, a positive return rate and
\* savings >= 0, each recorded liquid value at an age below retirementAge
\* is greater than the value recorded the year before
C15_GrowthBeforeRetirement ==
    (InRun /\ properties = << >> /\ args.liquid_billions > 0
           /\ args.return_rate > 0 /\ args.monthly_save >= 0) =>
       \A y \in 2 .. Len(liquid_history) :
          ages[y] < self.retire_age =>
             /\ liquid_history[y].den = liquid_history[y - 1].den
             /\ liquid_history[y].den > 0
             /\ liquid_history[y].num > liquid_history[y - 1].num

\* compounding alone (no savings) over two pre-retirement years
C15_Witness ==
    /\ pc = "returned"
    /\ properties = << >>
    /\ args.liquid_billions > 0
    /\ args.return_rate > 0
    /\ args.monthly_save = 0
    /\ Len(ages) >= 2
    /\ ages[2] < self.retire_age
    /\ liquid_history[2].num > liquid_history[1].num

\* C17: a Sell property whose sale age is below currentAge or above endAge
\* is never sold: every year it adds its floored net equity and no cash,
\* and the run returns what it returns with that property set to Inherit
C17_SaleAgeOutsideHorizon ==
    InRun =>
      \A k \in 1 .. Len(properties) :
         LET p == properties[k] IN
         (p.strategy = Sell /\ (p.sell_age < self.current_age
                                  \/ p.sell_age > self.death_age)) =>
            /\ ~ Deref(Heap, props[k]).is_sold
            /\ \A y \in 1 .. Len(trace) :
                  LET t == trace[y].per[k]
                      gross == TimesOnePlusPow(p.current_val * EOK_WON * FP,
                                  args.inflation,
                                  trace[y].age - self.current_age)
                  IN
                  /\ t.visited /\ ~ t.sold
                  /\ t.net_equity = Max(0, gross - p.loan * EOK_WON * FP)
                  /\ t.cash_in_hand = 0
            /\ Returned =>
                  Result(Loc) =
                     Result(run_simulation(self, args,
                               [properties EXCEPT ![k].strategy = Inherit]))

\* one property whose sale age lies before the current age and one whose
\* sale age lies after the end age, both holding equity to the end
C17_Witness ==
    /\ pc = "returned"
    /\ Len(trace) >= 2
    /\ \E k \in 1 .. Len(properties), z \in 1 .. Len(properties) :
          /\ properties[k].strategy = Sell
          /\ properties[k].sell_age < self.current_age
          /\ trace[Len(trace)].per[k].net_equity > 0
          /\ properties[z].strategy = Sell
          /\ properties[z].sell_age > self.death_age
          /\ trace[Len(trace)].per[z].net_equity > 0

\* C18: a returned shortfall age lies in [currentAge, endAge], so the gap
\* calculate_score sees is never negative, and the score is 90 exactly when
\* the first negative liquid value is the one recorded at endAge
C18_ShortfallInHorizon ==
    pc = "scored" =>
       LET n == Len(liquid_history) IN
       /\ shortfall_age # None =>
             /\ Val(shortfall_age) >= self.current_age
             /\ Val(shortfall_age) <= self.death_age
             /\ self.death_age - Val(shortfall_age) >= 0
       /\ (Val(score)[1] = 90) <=> (shortfall_age = Some(self.death_age))
       /\ (Val(score)[1] = 90) <=>
             /\ n >= 1
             /\ ages[n] = self.death_age
             /\ IsNegative(liquid_history[n])
             /\ \A y \in 1 .. (n - 1) : ~ IsNegative(liquid_history[y])

C18_Witness ==
    /\ pc = "scored"
    /\ score = Some(<< 90, "Stable" >>)
    /\ Len(ages) >= 3
    /\ shortfall_age = Some(self.death_age)

\* C16: save_data_to_gsheet never raises; a missing secret, a failed
\* authorisation and any exception while opening or appending give
\* (False, message) and success gives (True, message); the sheet is opened
\* at most once and the row appended at most once (no retry); the score,
\* shortfall age and series are left as they were
C16_SaveNeverRaises ==
    [][pc' = "saved" =>
         /\ UNCHANGED << properties, score, shortfall_age, ages,
                         liquid_history, real_estate_history >>
         /\ save' # None
         /\ LET env == Val(save').env
                out == Val(save').out
                fails ==
                   \/ env.secrets = "none"
                   \/ env.authorize = "raise"
                   \/ env.open = "raise"
                   \/ env.values = "raise"
                   \/ env.values = "empty" /\ env.header = "raise"
                   \/ env.row = "raise"
            IN
            /\ ~ out.raised
            /\ out.ret # None
            /\ out.ret[1] \in BOOLEAN
            /\ out.ret[1] <=> ~ fails
            /\ out.opens <= 1
            /\ out.appends <= (IF env.values = "empty" THEN 2 ELSE 1)
            /\ (env.secrets = "none" \/ env.authorize = "raise")
                  => out.opens = 0
      ]_vars

\* the header row went in, the data row raised, and the call reported the
\* failure without trying again
C16_Witness ==
    /\ pc = "saved"
    /\ save # None
    /\ Val(save).env.row = "raise"
    /\ Val(save).out = Outcome(<< FALSE, "save_error" >>, FALSE, 1, 1)
    /\ score # None
    /\ shortfall_age # None

\* C19: in both scripts, for every current age the input allows, the
\* default of the sale-age slider lies within [currentAge, 100]
C19_SliderDefaultInBounds ==
    (widgets # None /\ Val(widgets).p_sell # None) =>
        LET sl == Val(Val(widgets).p_sell) IN
        /\ sl.min_value = Val(widgets).age_curr
        /\ sl.max_value = SELL_AGE_MAX
        /\ sl.min_value <= sl.value
        /\ sl.value <= sl.max_value

\* C20: the bounds of the age inputs give endAge >= currentAge for every
\* engine the script builds, so the loop runs at least once and the series
\* the lead handler indexes with [-1] is not empty
C20_HorizonNotEmpty ==
    pc = "engine" =>
        /\ self.current_age = Val(widgets).age_curr
        /\ self.death_age = Val(widgets).age_death
        /\ self.death_age >= self.current_age
        /\ self.period >= 1
        /\ LoopLength(self) >= 1

\* the tightest case: both ages at their common bound
C20_Witness ==
    /\ pc = "engine"
    /\ Val(widgets).age_curr = CURR_AGE_MAX
    /\ Val(widgets).age_death = DEATH_AGE_MIN
    /\ self.period = 1

\* C21: whatever properties were added and deleted and however often the
\* script re-ran the simulation, every property in the session store has
\* is_sold = False, so each run starts with all stored properties unsold
C21_StoreNeverSold ==
    \A k \in 1 .. Len(properties) : ~ properties[k].is_sold

\* a full store during a repeated run, after the earlier run and this one
\* both sold a property
C21_Witness ==
    /\ pc = "loop"
    /\ first # None
    /\ Len(properties) = MaxProps
    /\ Val(first).real_estate_history # << >>
    /\ \E k \in 1 .. Len(props) :
          /\ copies[k].is_sold
          /\ ~ properties[k].is_sold
          /\ Val(first).real_estate_history[Len(ages)]
                = real_estate_history[Len(ages)]

=============================================================================
